---------------------------- MODULE Spec2Model ----------------------------
(***************************************************************************)
(* A model of the earnings calendar scraper (src/scraper.py): the row      *)
(* parser, the page scraper, the enrichment step and the multi-day         *)
(* orchestrator of EarningsCalendarScraper, with the browser driver as an  *)
(* environment whose calls succeed or raise.                               *)
(*                                                                         *)
(* Texts are sequences of one-character strings.  Dates are proleptic      *)
(* Gregorian ordinals (datetime.toordinal()): 738886 is Monday 2024-01-01  *)
(* and MaxOrdinal is 9999-12-31, the last date datetime can hold.          *)
(***************************************************************************)
EXTENDS Integers, Sequences, FiniteSets, TLC

(***************************************************************************)
(* Bounds of the model.                                                    *)
(***************************************************************************)
MaxDays == 3
MaxRuns == 2
MaxRows == 4
MaxPrior == 1
MaxEvents == 3
MaxEnrichArg == 3
MaxTextLen == 3

(***************************************************************************)
(* Program constants.                                                      *)
(***************************************************************************)
MaxOrdinal == 3652059
DefaultMaxEnrich == 10
MinCells == 4
FirstWeekendDay == 5

None == [kind |-> "none", mant |-> 0, exp |-> 0]
NoText == <<"<None>">>

(***************************************************************************)
(* str.strip(), str.upper(), str.replace() on texts.                       *)
(***************************************************************************)
IsSpace(c) == c \in {" ", "\t", "\n"}

RECURSIVE LStrip(_)
LStrip(t) == IF t # <<>> /\ IsSpace(Head(t)) THEN LStrip(Tail(t)) ELSE t

RECURSIVE RStrip(_)
RStrip(t) ==
    IF t # <<>> /\ IsSpace(t[Len(t)]) THEN RStrip(SubSeq(t, 1, Len(t) - 1)) ELSE t

Strip(t) == RStrip(LStrip(t))

LowerLetters ==
    <<"a","b","c","d","e","f","g","h","i","j","k","l","m",
      "n","o","p","q","r","s","t","u","v","w","x","y","z">>
UpperLetters ==
    <<"A","B","C","D","E","F","G","H","I","J","K","L","M",
      "N","O","P","Q","R","S","T","U","V","W","X","Y","Z">>

UpperChar(c) ==
    IF \E i \in 1..26 : LowerLetters[i] = c
    THEN UpperLetters[CHOOSE i \in 1..26 : LowerLetters[i] = c]
    ELSE c

LowerChar(c) ==
    IF \E i \in 1..26 : UpperLetters[i] = c
    THEN LowerLetters[CHOOSE i \in 1..26 : UpperLetters[i] = c]
    ELSE c

Upper(t) == [i \in 1..Len(t) |-> UpperChar(t[i])]
Lower(t) == [i \in 1..Len(t) |-> LowerChar(t[i])]

RECURSIVE Clean(_)
Clean(t) ==
    IF t = <<>> THEN <<>>
    ELSE LET c == Head(t)
         IN  IF c \in {"$", ",", ")"} THEN Clean(Tail(t))
             ELSE IF c = "(" THEN <<"-">> \o Clean(Tail(t))
             ELSE <<c>> \o Clean(Tail(t))

(***************************************************************************)
(* float(str): an optional sign, then inf, infinity or nan, or a decimal   *)
(* with an optional exponent; underscores only between digits.  A finite   *)
(* value is mant * 10^exp; a decimal beyond the double range is inf.       *)
(***************************************************************************)
Digits == <<"0","1","2","3","4","5","6","7","8","9">>
IsDigit(c) == \E i \in 1..10 : Digits[i] = c
DigitVal(c) == (CHOOSE i \in 1..10 : Digits[i] = c) - 1

\* digits with single underscores strictly between digits
DigitRun(t) ==
    /\ t # <<>>
    /\ IsDigit(t[1]) /\ IsDigit(t[Len(t)])
    /\ \A i \in 1..Len(t) : IsDigit(t[i]) \/ t[i] = "_"
    /\ \A i \in 1..(Len(t) - 1) : ~(t[i] = "_" /\ t[i + 1] = "_")

RECURSIVE RunVal(_, _)
RunVal(t, acc) ==
    IF t = <<>> THEN acc
    ELSE IF Head(t) = "_" THEN RunVal(Tail(t), acc)
    ELSE RunVal(Tail(t), acc * 10 + DigitVal(Head(t)))

RunLen(t) == Cardinality({i \in 1..Len(t) : IsDigit(t[i])})

RECURSIVE NumDigits(_)
NumDigits(n) == IF n < 10 THEN 1 ELSE 1 + NumDigits(n \div 10)

Unsigned(t) == IF t # <<>> /\ Head(t) \in {"+", "-"} THEN Tail(t) ELSE t
IsNeg(t) == t # <<>> /\ Head(t) = "-"

FloatErr == [kind |-> "err", mant |-> 0, exp |-> 0]

\* the mantissa text: digits, with at most one point and a digit on a side of it
Mantissa(t) ==
    LET dots == {i \in 1..Len(t) : t[i] = "."}
    IN  IF dots = {} THEN
            IF DigitRun(t) THEN [ok |-> TRUE, mant |-> RunVal(t, 0), frac |-> 0]
            ELSE [ok |-> FALSE, mant |-> 0, frac |-> 0]
        ELSE IF Cardinality(dots) > 1 THEN [ok |-> FALSE, mant |-> 0, frac |-> 0]
        ELSE LET d == CHOOSE i \in dots : TRUE
                 ip == SubSeq(t, 1, d - 1)
                 fp == SubSeq(t, d + 1, Len(t))
             IN  IF /\ (ip = <<>> \/ DigitRun(ip))
                    /\ (fp = <<>> \/ DigitRun(fp))
                    /\ ~(ip = <<>> /\ fp = <<>>)
                 THEN [ok |-> TRUE, mant |-> RunVal(fp, RunVal(ip, 0)),
                       frac |-> RunLen(fp)]
                 ELSE [ok |-> FALSE, mant |-> 0, frac |-> 0]

Finite(neg, mant, exp) ==
    IF mant # 0 /\ NumDigits(mant) + exp > 309
    THEN [kind |-> "inf", mant |-> IF neg THEN -1 ELSE 1, exp |-> 0]
    ELSE [kind |-> "num", mant |-> IF neg THEN -mant ELSE mant, exp |-> exp]

ParseFloat(text) ==
    LET t == Strip(text)
        u == Unsigned(t)
        neg == IsNeg(t)
        low == Lower(u)
        es == {i \in 1..Len(u) : low[i] = "e"}
    IN  IF low \in {<<"i","n","f">>, <<"i","n","f","i","n","i","t","y">>}
        THEN [kind |-> "inf", mant |-> IF neg THEN -1 ELSE 1, exp |-> 0]
        ELSE IF low = <<"n","a","n">> THEN [kind |-> "nan", mant |-> 0, exp |-> 0]
        ELSE IF es = {} THEN
            LET m == Mantissa(u)
            IN  IF m.ok THEN Finite(neg, m.mant, -m.frac) ELSE FloatErr
        ELSE
            LET e == CHOOSE i \in es : \A j \in es : i <= j
                m == Mantissa(SubSeq(u, 1, e - 1))
                x == SubSeq(u, e + 1, Len(u))
                xu == Unsigned(x)
            IN  IF m.ok /\ DigitRun(xu)
                THEN Finite(neg, m.mant,
                            (IF IsNeg(x) THEN -RunVal(xu, 0) ELSE RunVal(xu, 0)) - m.frac)
                ELSE FloatErr

(***************************************************************************)
(* _parse_financial_number (lines 359-388).                                *)
(***************************************************************************)
NotAvailable ==
    {<<"N","/","A">>, <<"T","B","D">>, <<"-","-">>, <<>>}

Multiplier(cleaned) ==
    IF cleaned = <<>> THEN 0
    ELSE LET c == UpperChar(cleaned[Len(cleaned)])
         IN  IF c = "B" THEN 9 ELSE IF c = "M" THEN 6 ELSE IF c = "K" THEN 3 ELSE 0

Scale(f, p) ==
    IF f.kind = "num" /\ p > 0 THEN Finite(f.mant < 0,
                                          IF f.mant < 0 THEN -f.mant ELSE f.mant,
                                          f.exp + p)
    ELSE f

ParseFinancialNumber(text) ==
    IF text = <<>> \/ Upper(text) \in NotAvailable THEN None
    ELSE LET cleaned == Clean(text)
             p == Multiplier(cleaned)
             body == IF p > 0 THEN SubSeq(cleaned, 1, Len(cleaned) - 1) ELSE cleaned
             f == ParseFloat(body)
         IN  IF f.kind = "err" THEN None ELSE Scale(f, p)


(***************************************************************************)
(* EarningsEvent (lines 34-53).  An absent optional text is NoText, an     *)
(* absent eps_estimate is None.                                            *)
(***************************************************************************)
EarningsEvent(symbol, company_name, date, earnings_time, eps, revenue) ==
    [symbol |-> symbol, company_name |-> company_name, earnings_date |-> date,
     earnings_time |-> earnings_time, eps_estimate |-> eps,
     revenue_estimate |-> revenue, market_cap |-> NoText, sector |-> NoText,
     scraped_timestamp |-> "now"]

NoEvent == EarningsEvent(<<>>, <<>>, 0, <<>>, None, NoText)

(***************************************************************************)
(* A table row as the driver presents it: the texts of its td cells, the   *)
(* link of the first cell (title and aria-label, <<>> when absent) and     *)
(* what goes wrong while it is read: "none", "dom" (a driver call on the   *)
(* row raises inside the row parser) or "raise" (the call of the row       *)
(* parser itself raises to the page scraper).                              *)
(***************************************************************************)
Row(cells, hasLink, title, aria, fault) ==
    [cells |-> cells, hasLink |-> hasLink, title |-> title, aria |-> aria,
     fault |-> fault]

\* company_link.get_attribute("title") or ...("aria-label") or symbol
CompanyName(row, symbol) ==
    IF ~row.hasLink THEN symbol
    ELSE IF row.title # <<>> THEN row.title
    ELSE IF row.aria # <<>> THEN row.aria
    ELSE symbol

\* a row parser that treats a short row as a parse failure
ParseEarningsRowStrict(row, date) ==
    IF row.fault = "raise" \/ (row.fault = "none" /\ Len(row.cells) < MinCells)
    THEN [kind |-> "raise", event |-> NoEvent]
    ELSE IF row.fault = "dom" THEN [kind |-> "none", event |-> NoEvent]
    ELSE LET symbol == Strip(row.cells[1])
         IN  IF symbol = <<>> THEN [kind |-> "none", event |-> NoEvent]
             ELSE [kind |-> "event",
                   event |-> EarningsEvent(
                       symbol, CompanyName(row, symbol), date,
                       Strip(row.cells[2]),
                       ParseFinancialNumber(Strip(row.cells[3])),
                       IF Strip(row.cells[4]) # <<"N","/","A">>
                       THEN Strip(row.cells[4]) ELSE NoText)]

\* _parse_earnings_row (lines 302-357): an event, nothing, or an exception
ParseEarningsRow(row, date) ==
    IF row.fault = "raise" THEN [kind |-> "raise", event |-> NoEvent]
    ELSE IF row.fault = "dom" THEN [kind |-> "none", event |-> NoEvent]
    ELSE IF Len(row.cells) < MinCells THEN [kind |-> "none", event |-> NoEvent]
    ELSE LET symbol == Strip(row.cells[1])
         IN  IF symbol = <<>> THEN [kind |-> "none", event |-> NoEvent]
             ELSE LET revenue_text == Strip(row.cells[4])
                  IN  [kind |-> "event",
                       event |-> EarningsEvent(
                           symbol, CompanyName(row, symbol), date,
                           Strip(row.cells[2]),
                           ParseFinancialNumber(Strip(row.cells[3])),
                           IF revenue_text # <<"N","/","A">> THEN revenue_text
                           ELSE NoText)]

(***************************************************************************)
(* session_stats (lines 151-156).  start_time is 0 for None, else the      *)
(* number of the run that set it.                                          *)
(***************************************************************************)
InitStats ==
    [pages_scraped |-> 0, events_found |-> 0, errors_encountered |-> 0,
     start_time |-> 0, has_duration |-> FALSE]

(***************************************************************************)
(* A calendar page as the driver presents it: nav is what driver.get does  *)
(* ("ok", "timeout", "error"), sel what wait.until does for each of the    *)
(* four selectors ("found", "timeout", "error"), trs whether listing the   *)
(* tr elements works, rows the tr elements, the header row first.          *)
(***************************************************************************)
Page(nav, sel, trs, rows) == [nav |-> nav, sel |-> sel, trs |-> trs, rows |-> rows]

NumSelectors == 4

\* the selector loop (lines 253-262): "found", "none" or "error"
RECURSIVE LocateTable(_, _)
LocateTable(sel, i) ==
    IF i > NumSelectors THEN "none"
    ELSE IF sel[i] = "found" THEN "found"
    ELSE IF sel[i] = "timeout" THEN LocateTable(sel, i + 1)
    ELSE "error"

\* data_rows = rows[1:] if len(rows) > 1 else []
DataRows(rows) == IF Len(rows) > 1 THEN Tail(rows) ELSE <<>>

\* a row step that puts the event of the row before those of earlier rows
RowStepPrepend(acc, row, date) ==
    LET r == ParseEarningsRow(row, date)
    IN  IF r.kind = "raise"
        THEN [acc EXCEPT !.errors = @ + 1]
        ELSE IF r.kind = "event"
        THEN [acc EXCEPT !.events = <<r.event>> \o @]
        ELSE acc

\* one turn of the row loop (lines 276-285) on the events and errors so far
RowStep(acc, row, date) ==
    LET r == ParseEarningsRow(row, date)
    IN  IF r.kind = "raise"
        THEN [acc EXCEPT !.errors = @ + 1]
        ELSE IF r.kind = "event"
        THEN [acc EXCEPT !.events = Append(@, r.event)]
        ELSE acc

\* a row loop that a raising row ends
RECURSIVE ScanRowsStopAtRaise(_, _, _)
ScanRowsStopAtRaise(rows, date, acc) ==
    IF rows = <<>> THEN acc
    ELSE IF ParseEarningsRow(Head(rows), date).kind = "raise"
    THEN [acc EXCEPT !.errors = @ + 1]
    ELSE ScanRowsStopAtRaise(Tail(rows), date, RowStep(acc, Head(rows), date))

RECURSIVE ScanRows(_, _, _)
ScanRows(rows, date, acc) ==
    IF rows = <<>> THEN acc
    ELSE ScanRows(Tail(rows), date, RowStep(acc, Head(rows), date))

\* the page-level handlers (lines 294-298)
PageTimeout(stats) == [events |-> <<>>, stats |-> stats]
PageError(stats) ==
    [events |-> <<>>,
     stats |-> [stats EXCEPT !.errors_encountered = @ + 1]]

\* scrape_yahoo_earnings_calendar (lines 227-300) with driver drv (0: None):
\* the events returned and the statistics afterwards
ScrapeYahooEarningsCalendar(drv, page, date, stats) ==
    IF drv = 0 THEN PageError(stats)
    ELSE IF page.nav = "timeout" THEN PageTimeout(stats)
    ELSE IF page.nav = "error" THEN PageError(stats)
    ELSE LET table == LocateTable(page.sel, 1)
         IN  IF table = "error" THEN PageError(stats)
             ELSE IF table = "none" THEN [events |-> <<>>, stats |-> stats]
             ELSE IF page.trs = "error" THEN PageError(stats)
             ELSE LET acc == ScanRows(DataRows(page.rows), date,
                                      [events |-> <<>>, errors |-> 0])
                  IN  [events |-> acc.events,
                       stats |-> [stats EXCEPT
                           !.errors_encountered = @ + acc.errors,
                           !.pages_scraped = @ + 1,
                           !.events_found = @ + Len(acc.events)]]

(***************************************************************************)
(* One symbol's profile page as the driver presents it: get is what        *)
(* driver.get does ("ok", "error"), sector and mcap what find_element does *)
(* for the two attributes: "found", "missing" (NoSuchElementException) or  *)
(* "error" (another exception).                                            *)
(***************************************************************************)
Profile(get, sector, mcap) ==
    [get |-> get, sector |-> sector, mcap |-> mcap,
     sector_text |-> <<" ", "T", "e", "c", "h">>, mcap_text |-> <<"3", "T", " ">>]

\* the body of the enrichment loop for one event (lines 398-424)
EnrichEvent(event, drv, prof) ==
    IF drv = 0 \/ prof.get = "error" THEN event
    ELSE IF prof.sector = "error" THEN event
    ELSE LET e1 == IF prof.sector = "found"
                   THEN [event EXCEPT !.sector = Strip(prof.sector_text)]
                   ELSE event
         IN  IF prof.mcap = "found"
             THEN [e1 EXCEPT !.market_cap = Strip(prof.mcap_text)]
             ELSE e1

Min(a, b) == IF a <= b THEN a ELSE b
Max(a, b) == IF a >= b THEN a ELSE b

\* no cap
SliceLenUncapped(n, max_enrich) == n

\* len(events[:max_enrich])
SliceLen(n, max_enrich) ==
    IF max_enrich >= 0 THEN Min(n, max_enrich) ELSE Max(0, n + max_enrich)

\* enrich_with_company_details (lines 390-427): the list returned and the
\* symbols whose profile page was requested, in order
EnrichWithCompanyDetails(drv, events, max_enrich, profs) ==
    LET k == SliceLen(Len(events), max_enrich)
    IN  [events |-> [i \in 1..Len(events) |->
                        IF i <= k THEN EnrichEvent(events[i], drv, profs[i])
                        ELSE events[i]],
         visited |-> IF drv = 0 THEN <<>>
                     ELSE [i \in 1..k |-> events[i].symbol]]

(***************************************************************************)
(* The orchestrator's date arithmetic (lines 445-471).                     *)
(***************************************************************************)
Weekday(d) == (d + 6) % 7

\* a filter that lets Saturday through
IsBusinessDayOffByOne(d) == Weekday(d) <= FirstWeekendDay

IsBusinessDay(d) == Weekday(d) < FirstWeekendDay

\* a delay after every scrape
DelayAlways(dn, days) == dn < days

\* "Don't delay after last day" (line 466)
DelayAfter(dn, days) == dn < days - 1

\* current_date += timedelta(days=1) raises OverflowError past datetime.max
NextDayOverflows(d) == d + 1 > MaxOrdinal

(***************************************************************************)
(* The inputs of the model.                                                *)
(***************************************************************************)
HeaderRow == Row(<<>>, FALSE, <<>>, <<>>, "none")
RowA ==
    Row(<<<<" ", "A">>, <<"A","M","C">>, <<"$","1",".","5">>, <<"2","B">>>>,
        TRUE, <<"A","c","o">>, <<>>, "none")
RowB ==
    Row(<<<<"B">>, <<"B","M","O">>, <<"N","/","A">>, <<"N","/","A">>, <<"x">>>>,
        FALSE, <<>>, <<>>, "none")
RowShort == Row(<<<<"C">>, <<"A","M","C">>>>, FALSE, <<>>, <<>>, "none")
RowBlank ==
    Row(<<<<" ", " ">>, <<"A","M","C">>, <<"1">>, <<"1","M">>>>,
        TRUE, <<>>, <<"x">>, "none")
RowDom == Row(<<>>, FALSE, <<>>, <<>>, "dom")
RowRaise == Row(<<>>, FALSE, <<>>, <<>>, "raise")

RowKinds == {RowA, RowB, RowShort, RowBlank, RowDom, RowRaise}

SelFirst == <<"found", "timeout", "timeout", "timeout">>
SelSecond == <<"timeout", "found", "error", "timeout">>
SelNone == <<"timeout", "timeout", "timeout", "timeout">>
SelError == <<"timeout", "error", "found", "found">>

PageNavTimeout == Page("timeout", SelFirst, "ok", <<>>)
PageNavError == Page("error", SelFirst, "ok", <<>>)
PageNoTable == Page("ok", SelNone, "ok", <<>>)
PageWaitError == Page("ok", SelError, "ok", <<>>)
PageRowsError == Page("ok", SelFirst, "error", <<>>)

FailPages ==
    {PageNavTimeout, PageNavError, PageNoTable, PageWaitError, PageRowsError}

RECURSIVE SeqsUpTo(_, _)
SeqsUpTo(S, n) ==
    IF n = 0 THEN {<<>>}
    ELSE LET shorter == SeqsUpTo(S, n - 1)
         IN  shorter \cup {Append(q, x) : q \in shorter, x \in S}

\* every table of a header row and up to MaxRows data rows, and the tables
\* without rows
TablePages ==
    {Page("ok", SelFirst, "ok", <<HeaderRow>> \o rows) :
        rows \in SeqsUpTo(RowKinds, MaxRows)}
    \cup {Page("ok", SelSecond, "ok", <<>>), Page("ok", SelSecond, "ok", <<RowA>>)}

Pages == FailPages \cup TablePages

\* the pages of a multi-day run
RunPages ==
    {PageNavTimeout, PageNavError, PageNoTable,
     Page("ok", SelFirst, "ok", <<HeaderRow, RowA, RowRaise, RowB>>),
     Page("ok", SelSecond, "ok", <<HeaderRow, RowShort, RowB>>)}

Profiles ==
    {Profile("error", "found", "found"), Profile("ok", "error", "found")}
    \cup {Profile("ok", s, m) : s \in {"found", "missing"},
                                m \in {"found", "missing", "error"}}

RunProfiles ==
    {Profile("error", "found", "found"), Profile("ok", "found", "error"),
     Profile("ok", "missing", "found")}

\* start_date: None (today is then the clock's date), an unparsable string,
\* or a date: the days of the week of 2024-01-01 and the last two days
\* datetime holds
StartDates == (738886..738892) \cup {MaxOrdinal - 1, MaxOrdinal}

StartArgs ==
    {[kind |-> "none", date |-> 0], [kind |-> "bad", date |-> 0]}
    \cup {[kind |-> "date", date |-> d] : d \in StartDates}

\* the inputs of repeated runs: a Thursday, a Friday, an unparsable string
RepeatStartArgs ==
    {[kind |-> "bad", date |-> 0], [kind |-> "date", date |-> 738889],
     [kind |-> "date", date |-> 738890]}

RepeatPages ==
    {PageNavError, Page("ok", SelFirst, "ok", <<HeaderRow, RowA, RowRaise>>)}

RepeatProfiles == {Profile("ok", "found", "missing")}

NoCallArgs == [start |-> [kind |-> "none", date |-> 0], days |-> 0, enrich_data |-> FALSE]

NoScrape == [called |-> FALSE, page |-> PageNoTable, date |-> 0,
             before |-> InitStats, events |-> <<>>]
NoNumber == [called |-> FALSE, text |-> <<>>, value |-> None]
NoEnrich == [called |-> FALSE, arg |-> <<>>, max_enrich |-> 0, profs |-> <<>>,
             events |-> <<>>, visited |-> <<>>]

(***************************************************************************)
(* The state: the scraper's fields (driver, session_stats,                 *)
(* scraped_events), the position and locals of run_multi_day_scrape (pc,   *)
(* args, current_date, day_num, all_events, pending), what the caller gets *)
(* (outcome, result) and the record of the environment: the drivers        *)
(* created, the drivers quit() was called on, the page requests and delays *)
(* of the run in order (trail), and the latest call of the page scraper,   *)
(* of the enrichment step and of the financial number parser.              *)
(***************************************************************************)
VARIABLES pc, run, args, driver, session_stats, scraped_events,
          current_date, day_num, all_events, pending, failed_at,
          outcome, result, drivers, quits, trail, scrape_call, enrich_call,
          number_call

vars == <<pc, run, args, driver, session_stats, scraped_events,
          current_date, day_num, all_events, pending, failed_at,
          outcome, result, drivers, quits, trail, scrape_call, enrich_call,
          number_call>>

scraper == <<driver, session_stats, scraped_events>>
locals == <<current_date, day_num, all_events>>
caller == <<outcome, result>>
env == <<drivers, quits, trail, scrape_call, enrich_call, number_call>>

\* __init__ (lines 144-156)
Init ==
    /\ pc = "idle"
    /\ run = 0
    /\ args = NoCallArgs
    /\ driver = 0
    /\ session_stats = InitStats
    /\ scraped_events = <<>>
    /\ current_date = 0
    /\ day_num = 0
    /\ all_events = <<>>
    /\ pending = <<>>
    /\ failed_at = "none"
    /\ outcome = "none"
    /\ result = <<>>
    /\ drivers = {}
    /\ quits = {}
    /\ trail = <<>>
    /\ scrape_call = NoScrape
    /\ enrich_call = NoEnrich
    /\ number_call = NoNumber

(***************************************************************************)
(* run_multi_day_scrape (lines 429-492).                                   *)
(***************************************************************************)
\* the caller calls run_multi_day_scrape(start_date, days, enrich_data)
CallWith(starts, runs) ==
    /\ pc = "idle"
    /\ run < runs
    /\ \E start \in starts, days \in 0..MaxDays, enrich_data \in BOOLEAN :
          args' = [start |-> start, days |-> days, enrich_data |-> enrich_data]
    /\ run' = run + 1
    /\ pc' = "init"
    /\ current_date' = 0
    /\ day_num' = 0
    /\ all_events' = <<>>
    /\ pending' = <<>>
    /\ failed_at' = "none"
    /\ outcome' = "none"
    /\ result' = <<>>
    /\ trail' = <<>>
    /\ scrape_call' = NoScrape
    /\ enrich_call' = NoEnrich
    /\ UNCHANGED <<scraper, drivers, quits, number_call>>

\* initialize_driver (lines 179-225): it raises before the driver exists
\* (lines 188-196), or after (line 218), or sets start_time
InitializeDriver ==
    /\ pc = "init"
    /\ \/ /\ pc' = "except"
          /\ failed_at' = "init"
          /\ UNCHANGED <<driver, drivers, session_stats>>
       \/ /\ driver' = run
          /\ drivers' = drivers \cup {run}
          /\ pc' = "except"
          /\ failed_at' = "init"
          /\ UNCHANGED session_stats
       \/ /\ driver' = run
          /\ drivers' = drivers \cup {run}
          /\ session_stats' = [session_stats EXCEPT !.start_time = run]
          /\ pc' = "parse"
          /\ UNCHANGED failed_at
    /\ UNCHANGED <<run, args, scraped_events, locals, pending, caller, quits,
                   trail, scrape_call, enrich_call, number_call>>

\* lines 442-446: the start date, today by default; strptime raises on a
\* string that is no date
ParseStartDate ==
    /\ pc = "parse"
    /\ \/ /\ args.start.kind = "bad"
          /\ pc' = "except"
          /\ failed_at' = "parse"
          /\ UNCHANGED locals
       \/ /\ args.start.kind # "bad"
          /\ \E today \in StartDates :
                /\ args.start.kind = "date" => today = args.start.date
                /\ current_date' = today
          /\ all_events' = <<>>
          /\ day_num' = 0
          /\ pc' = "loop"
          /\ UNCHANGED failed_at
    /\ UNCHANGED <<run, args, scraper, pending, caller, env>>

\* line 471, the end of one turn of the day loop
Advance ==
    IF NextDayOverflows(current_date)
    THEN /\ pc' = "except"
         /\ failed_at' = "loop"
         /\ UNCHANGED <<current_date, day_num>>
    ELSE /\ current_date' = current_date + 1
         /\ day_num' = day_num + 1
         /\ UNCHANGED <<pc, failed_at>>

ScrapeEntry(page) ==
    [op |-> "scrape", date |-> current_date, day |-> day_num, page |-> page]
DelayEntry ==
    [op |-> "delay", date |-> current_date, day |-> day_num, page |-> PageNoTable]

\* a day loop that a page without events ends
ScrapeDayEndsOnEmpty(pages) ==
    /\ pc = "loop"
    /\ day_num < args.days
    /\ IsBusinessDay(current_date)
    /\ \E page \in pages :
          LET r == ScrapeYahooEarningsCalendar(driver, page, current_date,
                                               session_stats)
          IN  /\ session_stats' = r.stats
              /\ all_events' = all_events \o r.events
              /\ scrape_call' = [called |-> TRUE, page |-> page,
                                 date |-> current_date,
                                 before |-> session_stats, events |-> r.events]
              /\ trail' = Append(trail, ScrapeEntry(page))
              /\ IF r.events = <<>>
                 THEN /\ pc' = "except"
                      /\ failed_at' = "loop"
                      /\ UNCHANGED <<current_date, day_num>>
                 ELSE Advance
    /\ UNCHANGED <<run, args, driver, scraped_events, pending, caller,
                   drivers, quits, enrich_call, number_call>>

\* lines 454-467 and 471: a business day
ScrapeDayWith(pages) ==
    /\ pc = "loop"
    /\ day_num < args.days
    /\ IsBusinessDay(current_date)
    /\ \E page \in pages :
          LET r == ScrapeYahooEarningsCalendar(driver, page, current_date,
                                               session_stats)
          IN  /\ session_stats' = r.stats
              /\ all_events' = all_events \o r.events
              /\ scrape_call' = [called |-> TRUE, page |-> page,
                                 date |-> current_date,
                                 before |-> session_stats, events |-> r.events]
              /\ trail' = IF DelayAfter(day_num, args.days)
                          THEN trail \o <<ScrapeEntry(page), DelayEntry>>
                          ELSE Append(trail, ScrapeEntry(page))
    /\ Advance
    /\ UNCHANGED <<run, args, driver, scraped_events, pending, caller,
                   drivers, quits, enrich_call, number_call>>

\* lines 468-471: a Saturday or a Sunday
SkipWeekend ==
    /\ pc = "loop"
    /\ day_num < args.days
    /\ ~IsBusinessDay(current_date)
    /\ Advance
    /\ UNCHANGED <<run, args, scraper, all_events, pending, caller, env>>

\* lines 474-476 with enrichment
EnrichWith(profiles) ==
    /\ pc = "loop"
    /\ day_num >= args.days
    /\ args.enrich_data /\ all_events # <<>>
    /\ \E profs \in [1..SliceLen(Len(all_events), DefaultMaxEnrich) -> profiles] :
          LET r == EnrichWithCompanyDetails(driver, all_events,
                                            DefaultMaxEnrich, profs)
          IN  /\ all_events' = r.events
              /\ enrich_call' = [called |-> TRUE, arg |-> all_events,
                                 max_enrich |-> DefaultMaxEnrich,
                                 profs |-> profs,
                                 events |-> r.events, visited |-> r.visited]
    /\ pc' = "finish"
    /\ UNCHANGED <<run, args, scraper, current_date, day_num, pending,
                   failed_at, caller, drivers, quits, trail, scrape_call,
                   number_call>>

\* line 474 without
SkipEnrich ==
    /\ pc = "loop"
    /\ day_num >= args.days
    /\ ~(args.enrich_data /\ all_events # <<>>)
    /\ pc' = "finish"
    /\ UNCHANGED <<run, args, scraper, locals, pending, failed_at, caller, env>>

\* lines 478-483 and _log_session_stats (lines 494-508)
Finish ==
    /\ pc = "finish"
    /\ scraped_events' = all_events
    /\ session_stats' =
          [session_stats EXCEPT !.has_duration = @ \/ session_stats.start_time # 0]
    /\ pending' = all_events
    /\ pc' = "finally"
    /\ UNCHANGED <<run, args, driver, locals, failed_at, caller, env>>

\* a handler that returns without the finally block
ExceptSkipsFinally ==
    /\ pc = "except"
    /\ pending' = <<>>
    /\ outcome' = "returned"
    /\ result' = <<>>
    /\ pc' = "idle"
    /\ UNCHANGED <<run, args, scraper, locals, failed_at, env>>

\* lines 485-487: the handler of the run
Except ==
    /\ pc = "except"
    /\ pending' = <<>>
    /\ pc' = "finally"
    /\ UNCHANGED <<run, args, scraper, locals, failed_at, caller, env>>

\* lines 489-492: quit() returns or raises; the caller gets the pending
\* value or the exception
Finally ==
    /\ pc = "finally"
    /\ \/ /\ driver = 0
          /\ outcome' = "returned"
          /\ result' = pending
          /\ UNCHANGED quits
       \/ /\ driver # 0
          /\ quits' = quits \cup {driver}
          /\ \/ /\ outcome' = "returned"
                /\ result' = pending
             \/ /\ outcome' = "raised"
                /\ UNCHANGED result
    /\ pc' = "idle"
    /\ UNCHANGED <<run, args, scraper, locals, pending, failed_at, drivers,
                   trail, scrape_call, enrich_call, number_call>>

\* one call of run_multi_day_scrape on a new scraper, as main() makes it
Call == CallWith(StartArgs, 1)
ScrapeDay == ScrapeDayWith(RunPages)
Enrich == EnrichWith(RunProfiles)

Next ==
    \/ Call
    \/ InitializeDriver
    \/ ParseStartDate
    \/ ScrapeDay
    \/ SkipWeekend
    \/ Enrich
    \/ SkipEnrich
    \/ Finish
    \/ Except
    \/ Finally

Spec == Init /\ [][Next]_vars

\* up to MaxRuns calls of run_multi_day_scrape on the same scraper
CallAgain == CallWith(RepeatStartArgs, MaxRuns)
ScrapeDayAgain == ScrapeDayWith(RepeatPages)
EnrichAgain == EnrichWith(RepeatProfiles)

NextRepeat ==
    \/ CallAgain
    \/ InitializeDriver
    \/ ParseStartDate
    \/ ScrapeDayAgain
    \/ SkipWeekend
    \/ EnrichAgain
    \/ SkipEnrich
    \/ Finish
    \/ Except
    \/ Finally

SpecRepeat == Init /\ [][NextRepeat]_vars

(***************************************************************************)
(* The page scraper called on its own: one call of                         *)
(* scrape_yahoo_earnings_calendar on any page of Pages, on a scraper whose *)
(* driver is None or initialized and whose statistics are those of up to   *)
(* MaxPrior earlier pages and errors.                                      *)
(***************************************************************************)
\* the statistics after earlier calls: events are found only on scraped pages
PriorStats(drv) ==
    LET all == {[InitStats EXCEPT !.pages_scraped = p, !.events_found = e,
                                  !.errors_encountered = x, !.start_time = drv] :
                   p \in (IF drv = 0 THEN {0} ELSE 0..MaxPrior),
                   e \in 0..MaxPrior, x \in 0..MaxPrior}
    IN  {st \in all : st.pages_scraped = 0 => st.events_found = 0}

InitDirect ==
    /\ pc = "direct"
    /\ run = 0
    /\ args = NoCallArgs
    /\ driver \in {0, 1}
    /\ session_stats \in PriorStats(driver)
    /\ scraped_events = <<>>
    /\ current_date = 0
    /\ day_num = 0
    /\ all_events = <<>>
    /\ pending = <<>>
    /\ failed_at = "none"
    /\ outcome = "none"
    /\ result = <<>>
    /\ drivers = {driver} \ {0}
    /\ quits = {}
    /\ trail = <<>>
    /\ scrape_call = NoScrape
    /\ enrich_call = NoEnrich
    /\ number_call = NoNumber

ScrapeCall ==
    /\ pc = "direct"
    /\ run = 0
    /\ run' = 1
    /\ \E page \in Pages, date \in {738886} :
          LET r == ScrapeYahooEarningsCalendar(driver, page, date, session_stats)
          IN  /\ session_stats' = r.stats
              /\ scrape_call' = [called |-> TRUE, page |-> page, date |-> date,
                                 before |-> session_stats, events |-> r.events]
              /\ outcome' = "returned"
              /\ result' = r.events
    /\ UNCHANGED <<pc, args, driver, scraped_events, locals, pending, failed_at,
                   drivers, quits, trail, enrich_call, number_call>>

SpecPage == InitDirect /\ [][ScrapeCall]_vars

(***************************************************************************)
(* The enrichment step called on its own: enrich_with_company_details on   *)
(* any list of up to MaxEvents events of the row parser and any cap up to  *)
(* MaxEnrichArg.                                                           *)
(***************************************************************************)
SampleEvents ==
    {ParseEarningsRow(row, 738886).event : row \in {RowA, RowB}}

EnrichCall ==
    /\ pc = "direct"
    /\ run = 0
    /\ run' = 1
    /\ \E events \in SeqsUpTo(SampleEvents, MaxEvents),
          max_enrich \in 0..MaxEnrichArg :
          \E profs \in [1..SliceLen(Len(events), max_enrich) -> Profiles] :
             LET r == EnrichWithCompanyDetails(driver, events, max_enrich, profs)
             IN  /\ enrich_call' = [called |-> TRUE, arg |-> events,
                                    max_enrich |-> max_enrich,
                                    profs |-> profs,
                                    events |-> r.events, visited |-> r.visited]
                 /\ outcome' = "returned"
                 /\ result' = r.events
    /\ UNCHANGED <<pc, args, scraper, locals, pending, failed_at,
                   drivers, quits, trail, scrape_call, number_call>>

SpecEnrich == InitDirect /\ [][EnrichCall]_vars

(***************************************************************************)
(* The financial number parser called on its own: one call of              *)
(* _parse_financial_number on any text of up to MaxTextLen characters of   *)
(* Alphabet, or on one of the longer sample texts, on a freshly built      *)
(* scraper (the function reads nothing of the object).                     *)
(***************************************************************************)
Alphabet ==
    {"1", ".", "e", "-", "(", ")", "$", ",", "B", "k", "/", "n", "a", "N",
     "i", "f", " "}

SampleTexts ==
    {<<"$","1",".","2","3">>, <<"(","1",".","2","3",")">>, <<"1",".","5","B">>,
     <<"2",".","5","M">>, <<"1",",","0","0","0">>, <<"T","B","D">>,
     <<"t","b","d">>, <<"a","b","c">>, <<"1","e","9","9","9">>,
     <<"I","n","f","i","n","i","t","y">>, <<"1","_","0">>, <<"0",".","0","5","k">>}

NumberTexts == SeqsUpTo(Alphabet, MaxTextLen) \cup SampleTexts

ParseCall ==
    /\ pc = "direct"
    /\ run = 0
    /\ run' = 1
    /\ \E text \in NumberTexts :
          number_call' = [called |-> TRUE, text |-> text,
                          value |-> ParseFinancialNumber(text)]
    /\ UNCHANGED <<pc, args, scraper, locals, pending, failed_at, caller,
                   drivers, quits, trail, scrape_call, enrich_call>>

InitNumber ==
    /\ InitDirect
    /\ driver = 0
    /\ session_stats = InitStats

SpecNumber == InitNumber /\ [][ParseCall]_vars

(***************************************************************************)
(* The properties.                                                         *)
(***************************************************************************)
\* the run has ended: the call has returned or raised
RunEnded == pc = "idle" /\ run >= 1

\* the day loop was entered
LoopEntered ==
    /\ run >= 1
    /\ \/ failed_at = "loop"
       \/ failed_at = "none" /\ pc \notin {"init", "parse"}

\* the first date of the range
FirstDate == current_date - day_num

\* 0 for Monday .. 6 for Sunday, counted from Monday 2024-01-01
DayOfWeek(d) == (d - 738886) % 7
MondayToFriday(d) == DayOfWeek(d) \in 0..4

Scrapes == SelectSeq(trail, LAMBDA e : e.op = "scrape")
RequestedDates == {Scrapes[i].date : i \in DOMAIN Scrapes}

\* C1: on every exit path of run_multi_day_scrape, quit() has been called
\* on every driver created, by the time the call has returned or raised
C1_DriverQuitOnEveryExit == pc = "idle" => drivers \subseteq quits

\* the run failed in initialize_driver after the driver existed, and the
\* driver was quit
C1_Witness ==
    /\ RunEnded
    /\ failed_at = "init"
    /\ run \in drivers
    /\ run \in quits

\* C2: after an exception at orchestrator scope with events of earlier
\* days accumulated, the call returns those events
C2_ReturnsAccumulated ==
    (RunEnded /\ outcome = "returned" /\ failed_at = "loop" /\ all_events # <<>>)
        => result = all_events

\* C3: the page requests of a run are exactly the Monday-to-Friday dates of
\* the range covered so far, once each and in order; none is a Saturday or
\* a Sunday; a run that completes the loop has covered [start, start+days)
C3_RequestsAreBusinessDays ==
    /\ \A i \in DOMAIN Scrapes : MondayToFriday(Scrapes[i].date)
    /\ \A i, j \in DOMAIN Scrapes : i < j => Scrapes[i].date < Scrapes[j].date
    /\ LoopEntered =>
          RequestedDates =
             {d \in FirstDate..(FirstDate + day_num - 1) : MondayToFriday(d)}
             \cup (IF failed_at = "loop" /\ MondayToFriday(current_date)
                   THEN {current_date} ELSE {})
    /\ (LoopEntered /\ pc # "loop" /\ failed_at = "none") => day_num = args.days
    /\ ~LoopEntered => Scrapes = <<>>

\* a completed run of three days from a Friday: one request, for the Friday
C3_Witness ==
    /\ RunEnded /\ failed_at = "none" /\ outcome = "returned"
    /\ args.days = 3
    /\ DayOfWeek(FirstDate) = 4
    /\ RequestedDates = {FirstDate}

\* the latest call of the page scraper got as far as the rows of a table
TableScraped ==
    /\ scrape_call.called
    /\ driver # 0
    /\ scrape_call.page \notin FailPages

CallDataRows == DataRows(scrape_call.page.rows)
ErrorsAdded ==
    session_stats.errors_encountered - scrape_call.before.errors_encountered
CountRows(S) == Cardinality({i \in DOMAIN CallDataRows : CallDataRows[i] \in S})

\* the events the well-formed rows RowA and RowB stand for
RECURSIVE GoodSymbols(_)
GoodSymbols(rows) ==
    IF rows = <<>> THEN <<>>
    ELSE IF Head(rows) = RowA THEN <<<<"A">>>> \o GoodSymbols(Tail(rows))
    ELSE IF Head(rows) = RowB THEN <<<<"B">>>> \o GoodSymbols(Tail(rows))
    ELSE GoodSymbols(Tail(rows))

Symbols(events) == [i \in DOMAIN events |-> events[i].symbol]

\* C4: when the row parser raises for exactly one of the N data rows of a
\* page and the others are well-formed, the page scraper goes through the
\* rows after it, returns the N-1 events of the others and adds exactly 1
\* to errors_encountered
C4_OneRaisingRowIsIsolated ==
    (/\ TableScraped
     /\ CountRows({RowRaise}) = 1
     /\ CountRows({RowA, RowB}) = Len(CallDataRows) - 1)
        => /\ Len(scrape_call.events) = Len(CallDataRows) - 1
           /\ Symbols(scrape_call.events) = GoodSymbols(CallDataRows)
           /\ ErrorsAdded = 1

\* the raising row stands between two well-formed rows
C4_Witness ==
    /\ TableScraped
    /\ CallDataRows = <<RowA, RowRaise, RowB>>
    /\ Symbols(scrape_call.events) = <<<<"A">>, <<"B">>>>
    /\ ErrorsAdded = 1

\* the events of the pages requested, page after page
RECURSIVE Expected(_)
Expected(scrapes) ==
    IF scrapes = <<>> THEN <<>>
    ELSE LET e == Head(scrapes)
             syms == IF e.page \in FailPages THEN <<>>
                     ELSE GoodSymbols(DataRows(e.page.rows))
         IN  [i \in DOMAIN syms |-> <<syms[i], e.date>>] \o Expected(Tail(scrapes))

Keys(events) ==
    [i \in DOMAIN events |-> <<events[i].symbol, events[i].earnings_date>>]

\* C5: the page scraper never raises: a navigation timeout, a missing table
\* or another page-level exception gives an empty list for the date (the
\* day loop fails only on the date arithmetic), the run goes on to request
\* every later business day, and the events of the other days are kept
C5_PageFailureIsContained ==
    /\ (scrape_call.called /\ scrape_call.page \in FailPages)
          => scrape_call.events = <<>>
    /\ failed_at = "loop" => current_date = MaxOrdinal
    /\ \A i \in DOMAIN Scrapes :
          Scrapes[i].page \in FailPages =>
             \A d \in (Scrapes[i].date + 1)..(FirstDate + day_num - 1) :
                MondayToFriday(d) => d \in RequestedDates
    /\ LoopEntered => Keys(all_events) = Expected(Scrapes)
    /\ (RunEnded /\ outcome = "returned" /\ failed_at = "none")
          => Keys(result) = Expected(Scrapes)

\* a failed page between two days with events, all of them returned
C5_Witness ==
    /\ RunEnded /\ outcome = "returned" /\ failed_at = "none"
    /\ Len(Scrapes) = 3
    /\ Scrapes[1].page \notin FailPages
    /\ Scrapes[2].page \in FailPages
    /\ Scrapes[3].page \notin FailPages
    /\ \E i, j \in DOMAIN result :
          /\ result[i].earnings_date = Scrapes[1].date
          /\ result[j].earnings_date = Scrapes[3].date

\* C6: run_multi_day_scrape never raises to its caller, whatever fails, and
\* a run whose driver initialization fails issues no page request
C6_NeverRaises ==
    /\ RunEnded => outcome = "returned"
    /\ failed_at = "init" => Scrapes = <<>>

\* a row with fewer than 4 cells or a whitespace-only first cell
ShortOrBlank(row) ==
    /\ row.fault = "none"
    /\ \/ Len(row.cells) < 4
       \/ \A i \in DOMAIN row.cells[1] : row.cells[1][i] = " "
SkippedRows ==
    Cardinality({i \in DOMAIN CallDataRows : ShortOrBlank(CallDataRows[i])})

\* C7: in a table of a header row and k data rows of which s have fewer
\* than 4 cells or a whitespace-only first cell and the rest are
\* well-formed, the page scraper returns k-s events and leaves
\* errors_encountered as it was
C7_ShortRowsAreSkipped ==
    (/\ TableScraped
     /\ Len(scrape_call.page.rows) >= 1
     /\ SkippedRows + CountRows({RowA, RowB}) = Len(CallDataRows))
        => /\ Len(scrape_call.events) = Len(CallDataRows) - SkippedRows
           /\ Symbols(scrape_call.events) = GoodSymbols(CallDataRows)
           /\ ErrorsAdded = 0

\* 1 header and 4 data rows, the third row with 2 cells: 3 events, 0 errors
C7_Witness ==
    /\ TableScraped
    /\ scrape_call.page.rows = <<HeaderRow, RowA, RowB, RowShort, RowA>>
    /\ Len(scrape_call.events) = 3
    /\ ErrorsAdded = 0

\* the pages scraped, the events found and the errors of the pages of trail
PageErrors(page) ==
    IF page \in {PageNavError, PageWaitError, PageRowsError} THEN 1
    ELSE IF page \in FailPages THEN 0
    ELSE Cardinality({i \in DOMAIN DataRows(page.rows) :
                         DataRows(page.rows)[i] = RowRaise})

RECURSIVE SumErrors(_)
SumErrors(scrapes) ==
    IF scrapes = <<>> THEN 0
    ELSE PageErrors(Head(scrapes).page) + SumErrors(Tail(scrapes))

RunPagesScraped ==
    Cardinality({i \in DOMAIN Scrapes : Scrapes[i].page \notin FailPages})

\* C8: at the end of a second run on the same scraper, pages_scraped,
\* events_found and errors_encountered count the second run only
C8_StatsResetPerRun ==
    (RunEnded /\ run >= 2 /\ failed_at = "none")
        => /\ session_stats.pages_scraped = RunPagesScraped
           /\ session_stats.events_found = Len(Expected(Scrapes))
           /\ session_stats.errors_encountered = SumErrors(Scrapes)

\* C9: no inter-page delay follows the last page request of a run, also
\* when the range ends on weekend days
C9_NoDelayAfterLastRequest ==
    (RunEnded /\ failed_at = "none" /\ trail # <<>>)
        => trail[Len(trail)].op # "delay"

\* C9, amended: a delay follows the scrape of every business day but the
\* final calendar day of the range (day_num = days - 1), nothing follows
\* the scrape of that final day, and no delay happens anywhere else
C9_DelayExceptAfterFinalDay ==
    \A i \in DOMAIN trail :
       /\ trail[i].op = "delay" =>
             /\ i > 1
             /\ trail[i - 1].op = "scrape"
             /\ trail[i - 1].day = trail[i].day
             /\ trail[i].day < args.days - 1
       /\ (trail[i].op = "scrape" /\ trail[i].day < args.days - 1) =>
             /\ i < Len(trail)
             /\ trail[i + 1].op = "delay"
       /\ (trail[i].op = "scrape" /\ trail[i].day = args.days - 1) =>
             i = Len(trail)

\* three business days: scrape, delay, scrape, delay, scrape
C9_Witness ==
    /\ RunEnded /\ failed_at = "none"
    /\ args.days = 3
    /\ Len(trail) = 5
    /\ trail[4].op = "delay"
    /\ trail[5].op = "scrape"

\* C10: enrich_with_company_details requests the profile pages of the first
\* max_enrich events at most, and of all of them whatever fails for one of
\* them; it returns as many events in the same order, with no field but
\* sector and market_cap changed, and those only for the events visited
C10_EnrichmentFrame ==
    LET c == enrich_call
        n == Len(c.arg)
        k == Len(c.visited)
    IN  c.called =>
          /\ k <= c.max_enrich /\ k <= n
          /\ \A i \in 1..k : c.visited[i] = c.arg[i].symbol
          /\ Len(c.events) = n
          /\ \A i \in 1..n :
                [c.events[i] EXCEPT !.sector = c.arg[i].sector,
                                    !.market_cap = c.arg[i].market_cap] = c.arg[i]
          /\ \A i \in (k + 1)..n : c.events[i] = c.arg[i]
          /\ driver # 0 =>
                /\ k = (IF n <= c.max_enrich THEN n ELSE c.max_enrich)
                /\ \A i \in 1..k :
                      /\ (c.profs[i].get = "ok" /\ c.profs[i].sector = "found")
                            => c.events[i].sector = <<"T", "e", "c", "h">>
                      /\ (/\ c.profs[i].get = "ok"
                          /\ c.profs[i].sector # "error"
                          /\ c.profs[i].mcap = "found")
                            => c.events[i].market_cap = <<"3", "T">>

\* three events and a cap of two: the first fails, the second is enriched,
\* the third is left alone
C10_Witness ==
    LET c == enrich_call
    IN  /\ c.called /\ driver # 0
        /\ Len(c.arg) = 3 /\ c.max_enrich = 2
        /\ c.profs[1].get = "error"
        /\ c.events[1] = c.arg[1]
        /\ c.events[2].sector = <<"T", "e", "c", "h">>
        /\ c.events[3] = c.arg[3]
        /\ Len(c.visited) = 2


(***************************************************************************)
(* The financial number parser (C11).                                      *)
(***************************************************************************)
Negated(v) == [v EXCEPT !.mant = -v.mant]

\* a text "(" body ")" whose body is an unsigned decimal
Parenthesized(text) ==
    /\ Len(text) >= 3
    /\ Head(text) = "(" /\ text[Len(text)] = ")"
    /\ (IsDigit(text[2]) \/ text[2] = ".")
    /\ ParseFloat(SubSeq(text, 2, Len(text) - 1)).kind = "num"

\* a text body B, body M or body K (either case) whose body is a decimal
Suffixed(text) ==
    /\ Len(text) >= 2
    /\ Multiplier(text) > 0
    /\ ParseFloat(SubSeq(text, 1, Len(text) - 1)).kind = "num"

\* the value of mant * 10^exp is the same as that of m * 10^(e + p)
SameValueScaled(v, w, p) ==
    /\ v.kind = "num"
    /\ IF w.mant = 0 THEN v.mant = 0
       ELSE v.mant = w.mant /\ v.exp = w.exp + p

\* C11: _parse_financial_number is total: for any text it returns a finite
\* number or None and never raises; a not-available token (N/A, TBD, --,
\* empty, in any letter case) gives None, a parenthesized value is negated,
\* a trailing B/M/K multiplies by 1e9/1e6/1e3, and "abc" gives None
C11_ParserIsTotalAndFinite ==
    number_call.called =>
       LET text == number_call.text
           value == number_call.value
       IN  /\ value.kind \in {"none", "num"}
           /\ Upper(text) \in NotAvailable => value = None
           /\ Parenthesized(text) =>
                 value = Negated(ParseFloat(SubSeq(text, 2, Len(text) - 1)))
           /\ Suffixed(text) =>
                 SameValueScaled(value,
                                 ParseFloat(SubSeq(text, 1, Len(text) - 1)),
                                 Multiplier(text))
           /\ text = <<"a","b","c">> => value = None
           /\ text = <<"(","1",".","2","3",")">>
                 => value = [kind |-> "num", mant |-> -123, exp |-> -2]
           /\ text = <<"1",".","5","B">>
                 => value = [kind |-> "num", mant |-> 15, exp |-> 8]


(***************************************************************************)
(* The order of the events (C12).                                          *)
(***************************************************************************)
\* the page requested for date d, and the place in its table of the row
\* that the event with symbol sym comes from
PageOf(d) == (CHOOSE i \in DOMAIN Scrapes : Scrapes[i].date = d)
RowFor(sym) == IF sym = <<"A">> THEN RowA ELSE RowB
RowIndex(d, sym) ==
    LET rows == Scrapes[PageOf(d)].page.rows
    IN  CHOOSE k \in DOMAIN rows : rows[k] = RowFor(sym)

\* earlier dates first and, within a date, in the order of the rows
Ordered(events) ==
    \A i, j \in DOMAIN events :
       i < j =>
          \/ events[i].earnings_date < events[j].earnings_date
          \/ /\ events[i].earnings_date = events[j].earnings_date
             /\ RowIndex(events[i].earnings_date, events[i].symbol)
                   < RowIndex(events[j].earnings_date, events[j].symbol)

\* C12: the pages are requested in strictly ascending order of date; in the
\* accumulated list and in the list the run returns the events of an
\* earlier date precede those of a later date and the events of one date
\* stand in the order of their rows; a run that completes returns the
\* events of every page requested, page after page; enrichment returns the
\* events in the order it was given them
C12_ResultIsOrdered ==
    /\ \A i, j \in DOMAIN Scrapes : i < j => Scrapes[i].date < Scrapes[j].date
    /\ LoopEntered => Ordered(all_events)
    /\ (RunEnded /\ outcome = "returned") => Ordered(result)
    /\ (RunEnded /\ outcome = "returned" /\ failed_at = "none")
          => Keys(result) = Expected(Scrapes)
    /\ enrich_call.called => Keys(enrich_call.events) = Keys(enrich_call.arg)

\* a run returned the events of two dates, two of them of one date, after
\* enrichment changed one of them
C12_Witness ==
    /\ RunEnded /\ outcome = "returned" /\ failed_at = "none"
    /\ enrich_call.called /\ enrich_call.events # enrich_call.arg
    /\ \E i, j, k \in DOMAIN result :
          /\ i < j /\ j < k
          /\ result[i].earnings_date = result[j].earnings_date
          /\ result[i].symbol # result[j].symbol
          /\ result[j].earnings_date < result[k].earnings_date


(***************************************************************************)
(* The success rate (C13).                                                 *)
(***************************************************************************)
\* the rate _log_session_stats reports (line 508),
\* (1 - errors / max(1, pages)) * 100, as the fraction num / den
SuccessRate(stats) ==
    LET pages == Max(1, stats.pages_scraped)
    IN  [num |-> (pages - stats.errors_encountered) * 100, den |-> pages]

\* C13: in every state of a run errors_encountered is at most
\* max(1, pages_scraped), so the success rate reported is a percentage
\* between 0 and 100
C13_SuccessRateIsPercentage ==
    run >= 1 =>
       /\ session_stats.errors_encountered
             <= Max(1, session_stats.pages_scraped)
       /\ SuccessRate(session_stats).num >= 0
       /\ SuccessRate(session_stats).num <= 100 * SuccessRate(session_stats).den

=============================================================================
